---- MODULE Spec2Model ----
(***************************************************************************)
(* The Semantic Discovery Engine: SemanticEngine of engine.py, one engine  *)
(* process over the persistent ChromaDB collection in ./chroma_store.      *)
(*                                                                         *)
(* A process constructs the engine (__init__), calls index() once (the CLI *)
(* with or without --force, the API's lifespan and the standalone UI       *)
(* without force) and, once index() has returned, serves recommend() and   *)
(* stats() to concurrent callers.  The collection survives the process;    *)
(* everything else is rebuilt by the next process.                         *)
(*                                                                         *)
(* Numbers: a cosine distance is kept in millionths (Scale), the rounded   *)
(* score and distance of a result in ten-thousandths, as round(x, 4) does. *)
(* BATCH_SIZE is 512 in the source and 2 here, so that a catalog of three  *)
(* rows already needs two batches.                                         *)
(***************************************************************************)
EXTENDS Integers, Sequences, FiniteSets, TLC

\* ---------------------------------------------------------------- bounds
MaxId == 3          \* movieId ranges over 1..MaxId
MaxN  == 2          \* n_results ranges over 1..MaxN

\* ------------------------------------------------------------- constants
BATCH_SIZE      == 2
COLLECTION_NAME == "movies"
MODEL_NAME      == "all-MiniLM-L6-v2"

NaN == "NaN"        \* pandas' missing value, as read_csv yields for an empty cell

Ids     == 1..MaxId
Clients == {"c1", "c2"}

\* The embedders a process can load under MODEL_NAME: the shipped weights
\* and a swapped-in stub.
Models == {"minilm", "stub"}

\* The cell contents the ETL computes for a movie: the title without its
\* year, the tags and the soup built from them; an empty cell is read back
\* as NaN.  Two movies can share all three.
Contents ==
    { [clean_title |-> "Robot", tags |-> "space", soup |-> "Robot space"],
      [clean_title |-> "",      tags |-> NaN,     soup |-> NaN] }

Queries == {"Robot space", "robot"}

\* The raw title column, which the file keeps: the title with its year.
Title(clean, id) ==
    LET year == "(" \o ToString(2000 + id) \o ")"
    IN  IF clean = "" THEN year ELSE clean \o " " \o year

Row(id, c) ==
    [movieId |-> id, title |-> Title(c.clean_title, id),
     tags |-> c.tags, soup |-> c.soup]

Min(S) == CHOOSE x \in S : \A y \in S : x <= y

RECURSIVE RowsOf(_, _)
RowsOf(S, f) ==
    IF S = {} THEN <<>>
    ELSE LET m == Min(S) IN <<Row(m, f[m])>> \o RowsOf(S \ {m}, f)

\* The files the ETL can leave in data/processed_movies.csv: one row per
\* movie, movieId unique, rows in movieId order.
Catalogs == UNION { { RowsOf(S, f) : f \in [S -> Contents] } : S \in SUBSET Ids }

\* ------------------------------------------------------------- embedder
\* model.encode(text): one fixed vector per (model, text).
Encode(m, text) ==
    IF m = "minilm"
    THEN CASE text = "Robot space" -> << 3,  2,  1,  1,  1>>
           [] text = ""            -> <<-3, -2, -1, -1, -1>>
           [] OTHER                -> << 7,  3,  2,  1,  1>>
    ELSE CASE text = "Robot space" -> << 2,  2,  2,  2,  0>>
           [] text = ""            -> << 2,  2,  1,  0,  0>>
           [] OTHER                -> << 1,  0,  0,  0,  0>>

RECURSIVE DotUpTo(_, _, _)
DotUpTo(u, v, k) == IF k = 0 THEN 0 ELSE u[k] * v[k] + DotUpTo(u, v, k - 1)

Dot(u, v) == DotUpTo(u, v, Len(u))

Norm(u) == LET s == Dot(u, u) IN CHOOSE n \in 0..s : n * n = s

Scale == 10^6

\* The collection's metric, "hnsw:space": "cosine": 1 - cos(u, v), in millionths.
CosineDistance(u, v) ==
    LET nn == Norm(u) * Norm(v) IN ((nn - Dot(u, v)) * Scale) \div nn

\* Every vector an embedder produces, and the metric tabulated over them.
Texts   == Queries \cup { IF c.soup = NaN THEN "" ELSE c.soup : c \in Contents }
Vectors == { Encode(m, text) : m \in Models, text \in Texts }

Distances == [u \in Vectors |-> [v \in Vectors |-> CosineDistance(u, v)]]

\* ---------------------------------------------------------------- store
\* The collection is a set of entries; count() is the number of entries.
Count(coll) == Cardinality(coll)

StoreIds(coll) == { e.id : e \in coll }

\* An insert that does not replace.
UpsertAppend(coll, entries) == coll \cup entries

\* collection.upsert(ids, embeddings, documents, metadatas): an entry whose
\* id is in the batch is replaced, any other id is created.
Upsert(coll, entries) ==
    { e \in coll : e.id \notin StoreIds(entries) } \cup entries

\* The nearest entry first, then the nearest of the rest; among entries at
\* one distance the index returns a fixed order of its own.
RECURSIVE TopK(_, _, _)
TopK(coll, qv, k) ==
    IF k = 0 \/ coll = {} THEN <<>>
    ELSE LET d == [x \in coll |-> Distances[x.embedding][qv]]
             e == CHOOSE x \in coll : \A y \in coll : d[x] <= d[y]
         IN  <<[metadata |-> e.metadata, distance |-> d[e]]>>
             \o TopK(coll \ {e}, qv, k - 1)

\* A query that ignores n_results.
QueryAll(coll, qv, k) == TopK(coll, qv, Count(coll))

\* A query that answers nothing when asked for more than the collection holds.
QueryStrict(coll, qv, k) == IF Count(coll) < k THEN <<>> ELSE TopK(coll, qv, k)

\* collection.query(query_embeddings, n_results, include): the n_results
\* nearest entries with their metadata and distance, fewer when the
\* collection holds fewer.
Query(coll, qv, k) == TopK(coll, qv, k)

\* ---------------------------------------------------------------- index
FillNa(x) == IF x = NaN THEN "" ELSE x

\* pd.read_csv(PROCESSED_FILE), then df["soup"].fillna("").astype(str)
ReadCsv(file) ==
    [k \in 1..Len(file) |-> [file[k] EXCEPT !.soup = FillNa(file[k].soup)]]

\* A batch count that rounds down.
NBatchFloor(total) == total \div BATCH_SIZE

\* math.ceil(total / BATCH_SIZE)
NBatch(total) == (total + BATCH_SIZE - 1) \div BATCH_SIZE

\* df.iloc[b * BATCH_SIZE : (b + 1) * BATCH_SIZE]
Batch(frame, b) ==
    LET lo == b * BATCH_SIZE + 1
        hi == IF (b + 1) * BATCH_SIZE < Len(frame) THEN (b + 1) * BATCH_SIZE
              ELSE Len(frame)
    IN  SubSeq(frame, lo, hi)

\* Soups that take the title column instead of the soup column.
SoupsFromTitle(batch) == [k \in 1..Len(batch) |-> batch[k].title]

Soups(batch)     == [k \in 1..Len(batch) |-> batch[k].soup]
BatchIds(batch)  == [k \in 1..Len(batch) |-> ToString(batch[k].movieId)]
Metadatas(batch) ==
    [k \in 1..Len(batch) |->
        [title |-> FillNa(batch[k].title), tags |-> FillNa(batch[k].tags)]]

\* model.encode(soups).tolist()
EncodeAll(m, texts) == [k \in 1..Len(texts) |-> Encode(m, texts[k])]

\* The entries one upsert call carries: position k of the four lists.
Entries(ids, embeddings, documents, metadatas) ==
    { [id |-> ids[k], embedding |-> embeddings[k],
       document |-> documents[k], metadata |-> metadatas[k]] : k \in 1..Len(ids) }

BatchEntries(frame, b, m) ==
    LET batch == Batch(frame, b)
    IN  Entries(BatchIds(batch), EncodeAll(m, Soups(batch)), Soups(batch),
                Metadatas(batch))

\* A count check that never skips.
ShouldSkipNever(existing, f) == FALSE

\* if existing > 0 and not force: return
ShouldSkip(existing, f) == existing > 0 /\ ~f

\* One pass of the loop body: encode the batch, then one upsert call.
IndexBatchStore(coll, frame, b, m) == Upsert(coll, BatchEntries(frame, b, m))

\* A pass that writes row by row and raises after its first row.
FailedBatchPartial(coll, frame, b, m) ==
    LET es == BatchEntries(frame, b, m)
    IN  Upsert(coll, {CHOOSE e \in es : TRUE})

\* The collection a pass leaves when encode or upsert raises: encode comes
\* before the only upsert call, and a rejected upsert writes nothing.
FailedBatchStore(coll, frame, b, m) == coll

RECURSIVE RunBatches(_, _, _, _, _)
RunBatches(coll, frame, m, b, n) ==
    IF b >= n THEN coll
    ELSE RunBatches(IndexBatchStore(coll, frame, b, m), frame, m, b + 1, n)

\* index without its count check.
RunIndexNoSkip(coll, file, m, f) ==
    RunBatches(coll, ReadCsv(file), m, 0, NBatch(Len(file)))

\* index(force) run from entry to return on the file `file`.
RunIndex(coll, file, m, f) ==
    IF ShouldSkip(Count(coll), f) THEN coll
    ELSE RunBatches(coll, ReadCsv(file), m, 0, NBatch(Len(file)))

\* ------------------------------------------------------------ recommend
\* One ten-thousandth, in millionths.
Ulp == Scale \div 10^4

\* Rounding that sends a tie upwards.
Round4HalfUp(x) == (x + Ulp \div 2) \div Ulp

\* round(x, 4) of a value in millionths, in ten-thousandths: to nearest,
\* a tie to the even neighbour.
Round4(x) ==
    LET q == x \div Ulp
        r == x % Ulp
    IN  IF 2 * r > Ulp \/ (2 * r = Ulp /\ q % 2 = 1) THEN q + 1 ELSE q

\* meta.get(key, default)
Get(meta, key, default) == IF key \in DOMAIN meta THEN meta[key] ELSE default

Recommendation(hit) ==
    [title    |-> Get(hit.metadata, "title", "N/A"),
     tags     |-> Get(hit.metadata, "tags", ""),
     score    |-> Round4(Scale - hit.distance),
     distance |-> Round4(hit.distance)]

Recommendations(hits) == [k \in 1..Len(hits) |-> Recommendation(hits[k])]

\* recommend(query, n_results) run alone against a collection.
Recommend(coll, m, q, n) == Recommendations(Query(coll, Encode(m, q), n))

\* ------------------------------------------------------------ the state
VARIABLES
    store,            \* the persistent collection
    model,            \* self.model, loaded by __init__
    ipc,              \* where the process's index() call is
    force,            \* index's argument
    df, n_batch, i,   \* index's locals
    cpc,              \* per caller: where its request is
    query, n_results, \* per caller: recommend's arguments
    query_vec,        \* per caller: recommend's local
    recommendations,  \* per caller: what recommend returned
    stats_out         \* per caller: what stats returned

vars == <<store, model, ipc, force, df, n_batch, i,
          cpc, query, n_results, query_vec, recommendations, stats_out>>

ixvars == <<ipc, force, df, n_batch, i>>
clvars == <<cpc, query, n_results, query_vec, recommendations, stats_out>>

NoQuery == ""
NoVec   == <<>>
NoStats == [collection |-> "", total_movies |-> 0, model |-> "", vector_dim |-> 0]

ClientsIdle ==
    /\ cpc' = [t \in Clients |-> "idle"]
    /\ query' = [t \in Clients |-> NoQuery]
    /\ n_results' = [t \in Clients |-> 0]
    /\ query_vec' = [t \in Clients |-> NoVec]
    /\ recommendations' = [t \in Clients |-> <<>>]
    /\ stats_out' = [t \in Clients |-> NoStats]

Init ==
    /\ store = {}
    /\ model \in Models
    /\ ipc = "idle" /\ force = FALSE /\ df = <<>> /\ n_batch = 0 /\ i = 0
    /\ cpc = [t \in Clients |-> "idle"]
    /\ query = [t \in Clients |-> NoQuery]
    /\ n_results = [t \in Clients |-> 0]
    /\ query_vec = [t \in Clients |-> NoVec]
    /\ recommendations = [t \in Clients |-> <<>>]
    /\ stats_out = [t \in Clients |-> NoStats]

\* A new process: SemanticEngine() loads the model and opens the collection.
Restart(m) ==
    /\ model' = m
    /\ ipc' = "idle" /\ force' = FALSE /\ df' = <<>> /\ n_batch' = 0 /\ i' = 0
    /\ ClientsIdle
    /\ UNCHANGED store

\* index(force=f), entry: the count check and the early return.
IndexSkip(f) ==
    /\ ipc = "idle"
    /\ ShouldSkip(Count(store), f)
    /\ ipc' = "skipped" /\ force' = f
    /\ UNCHANGED <<store, model, df, n_batch, i>>
    /\ UNCHANGED clvars

\* index(force=f), entry: the count check, then the read of the catalog.
IndexLoad(f) ==
    /\ ipc = "idle"
    /\ ~ShouldSkip(Count(store), f)
    /\ \E file \in Catalogs :
          /\ df' = ReadCsv(file)
          /\ n_batch' = NBatch(Len(file))
    /\ i' = 0
    /\ ipc' = "running" /\ force' = f
    /\ UNCHANGED <<store, model>>
    /\ UNCHANGED clvars

\* One pass of `for i in range(n_batch)`.
IndexBatch ==
    /\ ipc = "running" /\ i < n_batch
    /\ store' = IndexBatchStore(store, df, i, model)
    /\ i' = i + 1
    /\ UNCHANGED <<model, ipc, force, df, n_batch>>
    /\ UNCHANGED clvars

\* encode or upsert raises in pass i: index() propagates the exception.
IndexFail ==
    /\ ipc = "running" /\ i < n_batch
    /\ store' = FailedBatchStore(store, df, i, model)
    /\ ipc' = "failed"
    /\ UNCHANGED <<model, force, df, n_batch, i>>
    /\ UNCHANGED clvars

\* The loop is exhausted: index() returns and its locals are gone.
IndexReturn ==
    /\ ipc = "running" /\ i >= n_batch
    /\ ipc' = "done"
    /\ df' = <<>> /\ n_batch' = 0 /\ i' = 0
    /\ UNCHANGED <<store, model, force>>
    /\ UNCHANGED clvars

\* index() has returned to its caller.
Returned == ipc \in {"done", "skipped"}

\* The caller of index() goes on to serve requests (lifespan's yield, the
\* CLI's smoke test, the standalone UI's recommend).
ServeStart ==
    /\ Returned
    /\ ipc' = "serving" /\ force' = FALSE
    /\ UNCHANGED <<store, model, df, n_batch, i>>
    /\ UNCHANGED clvars

Serving == ipc = "serving"

\* A query_vec kept on the shared engine: another caller's, when one is set.
QueryVecShared(qvs, t) ==
    LET others == { c \in Clients : c # t /\ qvs[c] # NoVec }
    IN  IF others = {} THEN qvs[t] ELSE qvs[CHOOSE c \in others : TRUE]

\* The caller's own query_vec, a local of recommend.
QueryVecOf(qvs, t) == qvs[t]

\* recommend, first call: query_vec = self.model.encode([query])
RecommendEncode(t, q, n) ==
    /\ Serving /\ cpc[t] = "idle"
    /\ cpc' = [cpc EXCEPT ![t] = "encoded"]
    /\ query' = [query EXCEPT ![t] = q]
    /\ n_results' = [n_results EXCEPT ![t] = n]
    /\ query_vec' = [query_vec EXCEPT ![t] = Encode(model, q)]
    /\ UNCHANGED <<store, model, recommendations, stats_out>>
    /\ UNCHANGED ixvars

\* recommend, the rest: collection.query, the loop over the hits, return.
RecommendQuery(t) ==
    /\ cpc[t] = "encoded"
    /\ recommendations' =
          [recommendations EXCEPT
             ![t] = Recommendations(Query(store, QueryVecOf(query_vec, t),
                                          n_results[t]))]
    /\ cpc' = [cpc EXCEPT ![t] = "returned"]
    /\ UNCHANGED <<store, model, query, n_results, query_vec, stats_out>>
    /\ UNCHANGED ixvars

\* stats()
Stats(t) ==
    /\ Serving /\ cpc[t] = "idle"
    /\ stats_out' = [stats_out EXCEPT
                       ![t] = [collection |-> COLLECTION_NAME,
                               total_movies |-> Count(store),
                               model |-> MODEL_NAME,
                               vector_dim |-> 384]]
    /\ cpc' = [cpc EXCEPT ![t] = "stats"]
    /\ UNCHANGED <<store, model, query, n_results, query_vec, recommendations>>
    /\ UNCHANGED ixvars

\* The caller has its answer and may call again.
ClientDone(t) ==
    /\ cpc[t] \in {"returned", "stats"}
    /\ cpc' = [cpc EXCEPT ![t] = "idle"]
    /\ query' = [query EXCEPT ![t] = NoQuery]
    /\ n_results' = [n_results EXCEPT ![t] = 0]
    /\ query_vec' = [query_vec EXCEPT ![t] = NoVec]
    /\ recommendations' = [recommendations EXCEPT ![t] = <<>>]
    /\ stats_out' = [stats_out EXCEPT ![t] = NoStats]
    /\ UNCHANGED <<store, model>>
    /\ UNCHANGED ixvars

Next ==
    \/ \E m \in Models : Restart(m)
    \/ \E f \in BOOLEAN : IndexSkip(f)
    \/ \E f \in BOOLEAN : IndexLoad(f)
    \/ IndexBatch
    \/ IndexFail
    \/ IndexReturn
    \/ ServeStart
    \/ \E t \in Clients, q \in Queries, n \in 1..MaxN : RecommendEncode(t, q, n)
    \/ \E t \in Clients : RecommendQuery(t)
    \/ \E t \in Clients : Stats(t)
    \/ \E t \in Clients : ClientDone(t)

Spec == Init /\ [][Next]_vars

\* ================================================================ claims
\* index() has made every pass of its loop and is about to return.
Completed == ipc = "running" /\ i >= n_batch

CatalogIds(frame) == { ToString(frame[k].movieId) : k \in 1..Len(frame) }

VectorsOf(coll, id) == { e.embedding : e \in { x \in coll : x.id = id } }

SameIndex(a, b) ==
    /\ Count(a) = Count(b)
    /\ \A id \in StoreIds(a) \cup StoreIds(b) : VectorsOf(a, id) = VectorsOf(b, id)

\* C1: a call index(force=False) on a collection whose count() is above 0
\* returns at once: the collection (ids, vectors, documents, metadata) is
\* the same after the call as before it and no pass of the loop is entered,
\* whatever the catalog file and the loaded model are.
C1_SkipWritesNothing ==
    [][ (ipc = "idle" /\ ipc' \in {"running", "skipped"} /\ ~force'
           /\ Count(store) > 0)
        => (store' = store /\ ipc' = "skipped") ]_vars

\* A skipped call on a collection holding a vector the loaded model would
\* not produce for that entry's document.
C1_Witness ==
    /\ ipc = "skipped" /\ ~force
    /\ \E e \in store : e.embedding # Encode(model, e.document)

\* C2: once index(force=False) has run to completion, a second
\* index(force=False) on the same catalog and model leaves the same count()
\* and the same vector for every id: at the end of a first run that made its
\* passes, and after a first run that was skipped.
C2_Idempotent ==
    /\ (Completed /\ ~force) => SameIndex(RunIndex(store, df, model, FALSE), store)
    /\ (ipc = "skipped")
         => \A file \in Catalogs :
               SameIndex(RunIndex(store, file, model, FALSE), store)

\* A first run that wrote more than one batch and has completed.
C2_Witness == Completed /\ ~force /\ Count(store) > BATCH_SIZE

\* C3: every id names at most one entry and count() is the number of
\* distinct ids; a pass of the loop leaves exactly its batch's entries under
\* the batch's ids (vector, document and metadata together), leaves every
\* other entry alone, and raises count() only by the ids that were absent.
UniqueIds == \A e, f \in store : e.id = f.id => e = f

C3_OneEntryPerId ==
    /\ [](UniqueIds /\ Count(store) = Cardinality(StoreIds(store)))
    /\ [][ (ipc = "running" /\ i' = i + 1)
           => LET es == BatchEntries(df, i, model)
              IN  /\ es \subseteq store'
                  /\ \A e \in store' : e.id \in StoreIds(es) => e \in es
                  /\ \A e \in store : e.id \notin StoreIds(es) => e \in store'
                  /\ Count(store') =
                       Count(store) + Cardinality(StoreIds(es) \ StoreIds(store)) ]_vars

\* A forced run that has written a batch and whose next batch carries an id
\* already stored with another vector, document and metadata.
C3_Witness ==
    /\ ipc = "running" /\ force /\ i >= 1 /\ i < n_batch
    /\ \E e \in store : \E f \in BatchEntries(df, i, model) :
          /\ e.id = f.id /\ e.embedding # f.embedding
          /\ e.document # f.document /\ e.metadata # f.metadata

\* C4: the collection changes only by the upsert of one whole batch; when
\* pass i of the loop raises, the collection is as it was before the pass
\* and the entries of batches 0..i-1 are all in it.
C4_AllOrNothing ==
    [][ /\ \/ store' = store
           \/ /\ ipc = "running" /\ ipc' = "running" /\ i < n_batch
              /\ store' = Upsert(store, BatchEntries(df, i, model))
        /\ ipc' = "failed"
             => /\ store' = store
                /\ \A b \in 0..(i' - 1) : BatchEntries(df', b, model') \subseteq store'
      ]_vars

\* A run that failed in its second pass, whose batch is not in the collection.
C4_Witness ==
    /\ ipc = "failed" /\ i = 1
    /\ BatchEntries(df, 0, model) \subseteq store
    /\ \E f \in BatchEntries(df, 1, model) : f.id \notin StoreIds(store)

\* C5: when a run has aborted after at least one batch and before the last,
\* count() is above 0, so that a following index(force=False) leaves the
\* collection as it is, for any catalog and model, and a following
\* index(force=True) run to completion leaves an entry for every catalog id.
C5_Resumable ==
    (ipc = "failed" /\ i >= 1 /\ i < n_batch)
    => /\ Count(store) > 0
       /\ \A file \in Catalogs : \A m \in Models :
             /\ RunIndex(store, file, m, FALSE) = store
             /\ CatalogIds(file) \subseteq StoreIds(RunIndex(store, file, m, TRUE))

\* An aborted run that left an id of its catalog out of the collection.
C5_Witness ==
    /\ ipc = "failed" /\ i >= 1 /\ i < n_batch
    /\ ~(CatalogIds(df) \subseteq StoreIds(store))

\* C6: when index(force=True) has run to completion, every entry of the
\* collection has the vector the loaded model produces for its catalog row.
C6_ForceRecomputesAll ==
    (Completed /\ force)
    => \A e \in store :
          \E k \in 1..Len(df) :
             /\ e.id = ToString(df[k].movieId)
             /\ e.embedding = Encode(model, df[k].soup)

\* C7: a returned recommend(q, n) has at most n results and at most count()
\* results, in the order of the collection's answer, nearest first.
C7_AtMostNSorted ==
    \A t \in Clients :
       cpc[t] = "returned"
       => LET r    == recommendations[t]
              hits == Query(store, query_vec[t], n_results[t])
          IN  /\ Len(r) <= n_results[t]
              /\ Len(r) <= Count(store)
              /\ Len(r) = Len(hits)
              /\ \A k \in 1..Len(r) :
                    /\ r[k].title = hits[k].metadata.title
                    /\ r[k].distance = Round4(hits[k].distance)
              /\ \A k \in 1..(Len(r) - 1) : r[k].distance <= r[k + 1].distance

\* Two results out of three entries, the second strictly farther.
C7_Witness ==
    \E t \in Clients :
       /\ cpc[t] = "returned" /\ Len(recommendations[t]) = 2
       /\ Count(store) > 2
       /\ recommendations[t][1].distance < recommendations[t][2].distance

\* C8: in every result, score is round(1 - distance, 4) of that result's
\* own distance field.
C8_ScoreFromDistance ==
    \A t \in Clients :
       cpc[t] = "returned"
       => \A k \in 1..Len(recommendations[t]) :
             recommendations[t][k].score =
                Round4(Scale - recommendations[t][k].distance * Ulp)

\* A result whose raw distance lies half way between two ten-thousandths.
C8_Witness ==
    \E t \in Clients :
       /\ cpc[t] = "returned"
       /\ \E k \in 1..Len(recommendations[t]) :
             2 * (Query(store, query_vec[t], n_results[t])[k].distance % Ulp) = Ulp

\* C9: every result has a score in [0, 1] and a distance >= 0.
C9_ScoreInUnitRange ==
    \A t \in Clients :
       cpc[t] = "returned"
       => \A k \in 1..Len(recommendations[t]) :
             /\ recommendations[t][k].score >= 0
             /\ recommendations[t][k].score <= 10^4
             /\ recommendations[t][k].distance >= 0

\* C10: a step of recommend or stats leaves the collection and the model as
\* they are, and whatever the other callers are doing, a returned recommend
\* holds what recommend(query, n_results) run alone gives on the collection.
C10_RetrievalReadOnly ==
    [][ /\ (cpc' # cpc /\ ipc' = ipc) => (store' = store /\ model' = model)
        /\ \A t \in Clients :
              /\ (cpc[t] = "encoded" /\ cpc'[t] = "returned")
                   => recommendations'[t] =
                         Recommend(store', model', query'[t], n_results'[t])
              /\ (cpc[t] = "returned" /\ cpc'[t] = "returned")
                   => recommendations'[t] = recommendations[t]
              /\ (cpc[t] = "idle" /\ cpc'[t] = "stats")
                   => stats_out'[t].total_movies = Count(store')
      ]_vars

\* One caller has its results while another, with another query, is between
\* its encode and its query of the collection.
C10_Witness ==
    \E t, u \in Clients :
       /\ cpc[t] = "returned" /\ Len(recommendations[t]) > 0
       /\ cpc[u] = "encoded" /\ query[u] # query[t]

\* C11: a recommend(q, n) call that has made its query of the collection
\* has returned: an empty sequence on an empty collection and, when the
\* collection holds fewer than n entries, one result for every entry.
C11_FewerThanN ==
    /\ \A t \in Clients : cpc[t] \in {"idle", "encoded", "returned", "stats"}
    /\ \A t \in Clients :
          cpc[t] = "returned"
          => LET r == recommendations[t]
             IN  /\ Count(store) = 0 => r = <<>>
                 /\ Count(store) < n_results[t]
                      => /\ Len(r) = Count(store)
                         /\ \A e \in store :
                               \E k \in 1..Len(r) :
                                  /\ r[k].title = e.metadata.title
                                  /\ r[k].tags = e.metadata.tags
                                  /\ r[k].distance =
                                       Round4(Distances[e.embedding][query_vec[t]])

\* A recommend that has returned on a collection no index run has written.
C11_Witness ==
    \E t \in Clients :
       /\ cpc[t] = "returned" /\ n_results[t] >= 1
       /\ store = {} /\ recommendations[t] = <<>>

\* The result recommend builds from the stored entry of catalog row `row`.
OwnResult(r, row) ==
    /\ r.title = FillNa(row.title)
    /\ r.tags = FillNa(row.tags)

\* C12 as stated: once an index run has made all its passes, a query with
\* a catalog row's own soup and any n >= 1 has that row's item as its
\* first result.
C12_OwnSoupTopOne ==
    Completed
    => \A k \in 1..Len(df), n \in 1..MaxN :
          LET r == Recommend(store, model, df[k].soup, n)
          IN  Len(r) >= 1 /\ OwnResult(r[1], df[k])

\* C12, amended: once an index run has made all its passes, a query with a
\* catalog row's own soup and any n >= 1 has a first result at distance 0
\* and score 1, and that result is the row's own item whenever no other
\* entry of the collection has the same embedding.  The same holds of any
\* recommend call whose query is the document of an entry embedded by the
\* loaded model.
C12_SelfRetrieval ==
    /\ Completed
       => \A k \in 1..Len(df), n \in 1..MaxN :
             LET r   == Recommend(store, model, df[k].soup, n)
                 own == Encode(model, df[k].soup)
             IN  /\ Len(r) >= 1
                 /\ r[1].distance = 0
                 /\ r[1].score = Scale \div Ulp
                 /\ (\A e \in store :
                        e.embedding = own => e.id = ToString(df[k].movieId))
                    => OwnResult(r[1], df[k])
    /\ \A t \in Clients :
          cpc[t] = "returned"
          => \A e \in store :
                e.document = query[t] /\ e.embedding = query_vec[t]
                => LET r == recommendations[t]
                   IN  /\ Len(r) >= 1
                       /\ r[1].distance = 0
                       /\ r[1].score = Scale \div Ulp
                       /\ (\A f \in store : f.embedding = e.embedding => f = e)
                          => /\ r[1].title = e.metadata.title
                             /\ r[1].tags = e.metadata.tags

\* A recommend that has returned an entry for that entry's own soup, from a
\* collection that holds other entries too.
C12_Witness ==
    \E t \in Clients :
       /\ cpc[t] = "returned"
       /\ Count(store) >= 2
       /\ \E e \in store :
             /\ e.document = query[t] /\ e.embedding = query_vec[t]
             /\ \A f \in store : f.embedding = e.embedding => f = e
             /\ recommendations[t][1].title = e.metadata.title

\* The entry of one catalog row: its own id, soup, vector and metadata.
RowEntry(row, m) ==
    [id        |-> ToString(row.movieId),
     embedding |-> Encode(m, row.soup),
     document  |-> row.soup,
     metadata  |-> [title |-> FillNa(row.title), tags |-> FillNa(row.tags)]]

\* The batch row k of the catalog belongs to, batches counted from 0.
BatchOf(k) == (k - 1) \div BATCH_SIZE

RECURSIVE ConcatBatches(_, _, _)
ConcatBatches(frame, b, n) ==
    IF b >= n THEN <<>> ELSE Batch(frame, b) \o ConcatBatches(frame, b + 1, n)

\* C13: while index runs over a catalog of N rows, n_batch is
\* ceil(N / BATCH_SIZE); the batches are contiguous slices of 1..BATCH_SIZE
\* rows that in order make up the catalog, so each row is in exactly one;
\* the entries of a batch are its rows' own entries, id, vector, document
\* and metadata of one row together; before pass i every row of batches
\* 0..i-1 is stored and, on a collection that was empty, no row of batch i
\* or later is; so a complete run on an empty collection leaves exactly the
\* catalog's str(movieId) ids, each with its own row's soup as document.
C13_Batching ==
    ipc = "running"
    => LET N == Len(df)
       IN  /\ n_batch * BATCH_SIZE >= N
           /\ (n_batch - 1) * BATCH_SIZE < N
           /\ \A b \in 0..(n_batch - 1) :
                 LET batch == Batch(df, b)
                 IN  /\ Len(batch) \in 1..BATCH_SIZE
                     /\ \A j \in 1..Len(batch) : batch[j] = df[b * BATCH_SIZE + j]
                     /\ BatchEntries(df, b, model)
                          = { RowEntry(batch[j], model) : j \in 1..Len(batch) }
           /\ ConcatBatches(df, 0, n_batch) = df
           /\ \A k \in 1..N :
                 /\ BatchOf(k) \in 0..(n_batch - 1)
                 /\ { b \in 0..(n_batch - 1) :
                        \E j \in 1..Len(Batch(df, b)) : b * BATCH_SIZE + j = k }
                      = { BatchOf(k) }
                 /\ BatchOf(k) < i => RowEntry(df[k], model) \in store
                 /\ BatchOf(k) >= i /\ ~force
                      => ToString(df[k].movieId) \notin StoreIds(store)
           /\ i >= n_batch /\ ~force
              => /\ StoreIds(store) = CatalogIds(df)
                 /\ store = { RowEntry(df[k], model) : k \in 1..N }
                 /\ Count(store) = N

\* A run on an empty collection that has made its passes over a catalog
\* whose last batch is short.
C13_Witness ==
    /\ Completed /\ ~force
    /\ Len(df) > BATCH_SIZE /\ Len(df) % BATCH_SIZE # 0
    /\ n_batch = BatchOf(Len(df)) + 1
    /\ Count(store) = Len(df)

====
